---- MODULE Spec2Model ----
(***************************************************************************)
(* A model of untweeted's main.py: the text chunker, the record extractor, *)
(* the image renderer, the selection of the next record to post, the       *)
(* Bluesky thread and the main program's error handling.                   *)
(*                                                                         *)
(* Python strings are TLA+ strings; len, +, slicing are Len, \o, SubSeq.   *)
(* The non-ASCII glyphs of the source are one code point each and are      *)
(* written with one ASCII character: "*" for the quotation glyph, ">" for  *)
(* the arrow, "~" for the en-dash.  Each part of the program has its own   *)
(* specification; the variables of the other parts stay idle in it.        *)
(***************************************************************************)
EXTENDS Integers, Sequences, FiniteSets, TLC

VARIABLES
    \* chunk_text
    text, max_length, sentences, chunks, marks, sent_i, cpc,
    \* the candidate records, the posted.json ledger, the Bluesky feed
    records, ledger, feed_links, x_published, bsky_published, last_pick,
    \* the thread post_bsky_report sends
    t_record, t_extra, sent, prev, root, t_i, tpc,
    \* the main program
    mpc, exceptions, calls, printed, exit_error,
    \* marc_xml_to_reports
    m_doc, m_results, m_i, m_pc,
    \* get_images and pdf_to_image
    pdf, page_nrs, page_i, images, quality, buf, encodes, ipc, get_images_result

chunkVars == <<text, max_length, sentences, chunks, marks, sent_i, cpc>>
postVars == <<records, ledger, feed_links, x_published, bsky_published, last_pick>>
threadVars == <<t_record, t_extra, sent, prev, root, t_i, tpc>>
mainVars == <<mpc, exceptions, calls, printed, exit_error>>
marcVars == <<m_doc, m_results, m_i, m_pc>>
imageVars == <<pdf, page_nrs, page_i, images, quality, buf, encodes, ipc, get_images_result>>

vars == <<chunkVars, postVars, threadVars, mainVars, marcVars, imageVars>>

\* What each part of the program leaves alone.
notChunk == <<postVars, threadVars, mainVars, marcVars, imageVars>>
notPost == <<chunkVars, threadVars, mainVars, marcVars, imageVars>>
notThread == <<chunkVars, postVars, mainVars, marcVars, imageVars>>
notMain == <<chunkVars, postVars, threadVars, marcVars, imageVars>>
notMarc == <<chunkVars, postVars, threadVars, mainVars, imageVars>>
notImage == <<chunkVars, postVars, threadVars, mainVars, marcVars>>

(***************************************************************************)
(* Strings                                                                 *)
(***************************************************************************)
\* None; an f-string prints it as the text "None"
None == "None"

Char(s, i) == SubSeq(s, i, i)

IsSpace(c) == c \in {" ", "\n", "\t"}

endswith(s, suffix) ==
    /\ Len(s) >= Len(suffix)
    /\ SubSeq(s, Len(s) - Len(suffix) + 1, Len(s)) = suffix

\* str.split(): the maximal runs of non-whitespace characters, in order
WordStarts(s) ==
    {i \in 1..Len(s) : ~IsSpace(Char(s, i)) /\ (i = 1 \/ IsSpace(Char(s, i - 1)))}

WordEnds(s) ==
    {j \in 1..Len(s) : ~IsSpace(Char(s, j)) /\ (j = Len(s) \/ IsSpace(Char(s, j + 1)))}

split(s) ==
    LET starts == WordStarts(s)
        ends == WordEnds(s)
        nth(S, k) == CHOOSE i \in S : Cardinality({j \in S : j <= i}) = k
    IN  [k \in 1..Cardinality(starts) |-> SubSeq(s, nth(starts, k), nth(ends, k))]

RECURSIVE Concat(_)
Concat(ss) == IF ss = <<>> THEN "" ELSE Head(ss) \o Concat(Tail(ss))

RECURSIVE Flatten(_)
Flatten(seqs) == IF seqs = <<>> THEN <<>> ELSE Head(seqs) \o Flatten(Tail(seqs))

RECURSIVE StringsUpTo(_, _)
StringsUpTo(alphabet, n) ==
    IF n = 0 THEN {""}
    ELSE LET shorter == StringsUpTo(alphabet, n - 1)
         IN  shorter \cup {s \o c : s \in shorter, c \in alphabet}

RECURSIVE SeqsUpTo(_, _)
SeqsUpTo(S, n) ==
    IF n = 0 THEN {<<>>}
    ELSE LET shorter == SeqsUpTo(S, n - 1)
         IN  shorter \cup {Append(q, x) : q \in shorter, x \in S}

RECURSIVE Repeat(_, _)
Repeat(s, n) ==
    IF n = 0 THEN ""
    ELSE IF n = 1 THEN s
    ELSE Repeat(s, n \div 2) \o Repeat(s, n - (n \div 2))

\* s.replace(c, ""), for a one-character c
RECURSIVE RemoveIn(_, _, _, _)
RemoveIn(s, c, lo, hi) ==
    IF lo > hi THEN ""
    ELSE IF lo = hi THEN (IF Char(s, lo) = c THEN "" ELSE Char(s, lo))
    ELSE RemoveIn(s, c, lo, (lo + hi) \div 2) \o RemoveIn(s, c, ((lo + hi) \div 2) + 1, hi)

Remove(s, c) == RemoveIn(s, c, 1, Len(s))

Lowers == "abcdefghijklmnopqrstuvwxyz"
Uppers == "ABCDEFGHIJKLMNOPQRSTUVWXYZ"

LetterIndex(c, letters) ==
    IF \E i \in 1..Len(letters) : Char(letters, i) = c
    THEN CHOOSE i \in 1..Len(letters) : Char(letters, i) = c
    ELSE 0

IsLetter(c) == LetterIndex(c, Lowers) > 0 \/ LetterIndex(c, Uppers) > 0

upper(c) == IF LetterIndex(c, Lowers) > 0 THEN Char(Uppers, LetterIndex(c, Lowers)) ELSE c

lower(c) == IF LetterIndex(c, Uppers) > 0 THEN Char(Lowers, LetterIndex(c, Uppers)) ELSE c

\* str.title(): a letter after a letter is lowered, any other letter raised
RECURSIVE TitleIn(_, _, _)
TitleIn(s, lo, hi) ==
    IF lo > hi THEN ""
    ELSE IF lo = hi
         THEN IF lo > 1 /\ IsLetter(Char(s, lo - 1))
              THEN lower(Char(s, lo)) ELSE upper(Char(s, lo))
    ELSE TitleIn(s, lo, (lo + hi) \div 2) \o TitleIn(s, ((lo + hi) \div 2) + 1, hi)

title(s) == TitleIn(s, 1, Len(s))

\* s.strip(chars): s without its leading and trailing characters in chars
strip_chars(s, chars) ==
    LET kept == {i \in 1..Len(s) : Char(s, i) \notin chars}
    IN  IF kept = {} THEN ""
        ELSE SubSeq(s, CHOOSE i \in kept : \A j \in kept : i <= j,
                       CHOOSE i \in kept : \A j \in kept : j <= i)

\* s.strip()
strip(s) == strip_chars(s, {" ", "\n", "\t"})

(***************************************************************************)
(* chunk_text                                                              *)
(***************************************************************************)
MaxTextLen == 8
MaxMaxLength == 7

ChunkAlphabet == {"a", " ", "."}
Texts == StringsUpTo(ChunkAlphabet, MaxTextLen)
MaxLengths == 5..MaxMaxLength

\* pysbd's segmenter (clean=False) cuts the text into consecutive sentences
\* that keep their trailing whitespace; a cut falls between a whitespace
\* character and the non-whitespace character after it.
Cuts(t) ==
    {i \in 1..(Len(t) - 1) : IsSpace(Char(t, i)) /\ ~IsSpace(Char(t, i + 1))}

RECURSIVE CutAt(_, _, _)
CutAt(t, from, cuts) ==
    IF cuts = {} THEN <<SubSeq(t, from, Len(t))>>
    ELSE LET c == CHOOSE x \in cuts : \A y \in cuts : x <= y
         IN  <<SubSeq(t, from, c)>> \o CutAt(t, c + 1, cuts \ {c})

Segmentations(t) ==
    IF t = "" THEN {<<>>} ELSE {CutAt(t, 1, cuts) : cuts \in SUBSET Cuts(t)}

\* One pass of the word loop: st = [chunks, marks, current_chunk].
\* marks[i] records the marker chunk_text added to chunks[i].
pack_word_dropping(st, word, max_len) ==
    IF Len(st.current_chunk \o " " \o word) > max_len - 4
    THEN IF st.current_chunk # ""
         THEN [chunks |-> Append(st.chunks, st.current_chunk \o "..."),
               marks |-> Append(st.marks, "trail"),
               current_chunk |-> ""]
         ELSE [st EXCEPT !.current_chunk = word]
    ELSE [st EXCEPT !.current_chunk =
              IF st.current_chunk # "" THEN st.current_chunk \o " " \o word ELSE word]

pack_word(st, word, max_len) ==
    IF Len(st.current_chunk \o " " \o word) > max_len - 4
    THEN IF st.current_chunk # ""
         THEN [chunks |-> Append(st.chunks, st.current_chunk \o "..."),
               marks |-> Append(st.marks, "trail"),
               current_chunk |-> word]
         ELSE [st EXCEPT !.current_chunk = word]
    ELSE [st EXCEPT !.current_chunk =
              IF st.current_chunk # "" THEN st.current_chunk \o " " \o word ELSE word]

RECURSIVE pack_words(_, _, _)
pack_words(st, words, max_len) ==
    IF words = <<>> THEN st
    ELSE pack_words(pack_word(st, Head(words), max_len), Tail(words), max_len)

\* The tail of the else branch: the last chunk of a split sentence.
close_sentence(st) ==
    IF st.current_chunk = "" THEN [chunks |-> st.chunks, marks |-> st.marks]
    ELSE IF Len(st.chunks) > 0 /\ endswith(st.chunks[Len(st.chunks)], "...")
         THEN [chunks |-> Append(st.chunks, "..." \o st.current_chunk),
               marks |-> Append(st.marks, "lead")]
         ELSE [chunks |-> Append(st.chunks, st.current_chunk),
               marks |-> Append(st.marks, "none")]

split_sentence(cs, ms, sentence, max_len) ==
    close_sentence(pack_words([chunks |-> cs, marks |-> ms, current_chunk |-> ""],
                              split(sentence), max_len))

\* One pass of the loop over the sentences.
chunk_sentence(cs, ms, sentence, max_len) ==
    IF Len(sentence) <= max_len
    THEN [chunks |-> Append(cs, sentence), marks |-> Append(ms, "none")]
    ELSE split_sentence(cs, ms, sentence, max_len)

\* chunk_text on a text whose sentences the segmenter has cut.
RECURSIVE chunk_sentences(_, _, _, _)
chunk_sentences(cs, ms, sents, max_len) ==
    IF sents = <<>> THEN cs
    ELSE LET r == chunk_sentence(cs, ms, Head(sents), max_len)
         IN  chunk_sentences(r.chunks, r.marks, Tail(sents), max_len)

chunk_text(sents, max_len) == chunk_sentences(<<>>, <<>>, sents, max_len)

ChunkIdle ==
    /\ text = ""
    /\ max_length = 0
    /\ sentences = <<>>
    /\ chunks = <<>>
    /\ marks = <<>>
    /\ sent_i = 0
    /\ cpc = "idle"

ChunkInit ==
    /\ text \in Texts
    /\ max_length \in MaxLengths
    /\ sentences \in Segmentations(text)
    /\ chunks = <<>>
    /\ marks = <<>>
    /\ sent_i = 1
    /\ cpc = "loop"

SentenceFits ==
    /\ cpc = "loop"
    /\ sent_i <= Len(sentences)
    /\ Len(sentences[sent_i]) <= max_length
    /\ LET r == chunk_sentence(chunks, marks, sentences[sent_i], max_length)
       IN  /\ chunks' = r.chunks
           /\ marks' = r.marks
    /\ sent_i' = sent_i + 1
    /\ UNCHANGED <<text, max_length, sentences, cpc, notChunk>>

SentenceSplit ==
    /\ cpc = "loop"
    /\ sent_i <= Len(sentences)
    /\ Len(sentences[sent_i]) > max_length
    /\ LET r == chunk_sentence(chunks, marks, sentences[sent_i], max_length)
       IN  /\ chunks' = r.chunks
           /\ marks' = r.marks
    /\ sent_i' = sent_i + 1
    /\ UNCHANGED <<text, max_length, sentences, cpc, notChunk>>

ChunkReturn ==
    /\ cpc = "loop"
    /\ sent_i > Len(sentences)
    /\ cpc' = "done"
    /\ UNCHANGED <<text, max_length, sentences, chunks, marks, sent_i, notChunk>>

ChunkNext == SentenceFits \/ SentenceSplit \/ ChunkReturn

(***************************************************************************)
(* post_x_report and post_bsky_report: which record is posted next         *)
(***************************************************************************)
MaxRecords == 3
MaxPosts == 3

\* Catalogue ids: the text of controlfield 001, a number of any length.
RecordIds == {"7", "71", "17", "8"}

\* s in t, on Python strings: s occurs in t as a substring
Contains(t, s) ==
    \E i \in 1..(Len(t) - Len(s) + 1) : SubSeq(t, i, i + Len(s) - 1) = s

\* x in xs, on a Python list
InList(xs, x) == \E i \in 1..Len(xs) : xs[i] = x

\* The link of the root post of a record's thread.
RecordLink(id) == "https://digitallibrary.un.org/record/" \o id \o "?ln=en&v=pdf"

\* unposted[-1] if unposted else nothing
LastOrNone(unposted) ==
    IF unposted = <<>> THEN None ELSE unposted[Len(unposted)]

x_unposted(recs, posted) ==
    SelectSeq(recs, LAMBDA id : ~InList(posted, id))

bsky_unposted(recs, links) ==
    SelectSeq(recs, LAMBDA id : ~\E k \in 1..Len(links) : Contains(links[k], id))

PostIdle ==
    /\ records = <<>>
    /\ ledger = [ok |-> TRUE, x |-> <<>>]
    /\ feed_links = <<>>
    /\ x_published = <<>>
    /\ bsky_published = <<>>
    /\ last_pick = [path |-> "none"]

PostInit == PostIdle

\* The search of the main program returns the catalogue's reports, newest
\* first: a report published since the last run is at the front.
FetchReports ==
    /\ Len(records) < MaxRecords
    /\ \E id \in RecordIds :
          /\ ~InList(records, id)
          /\ records' = <<id>> \o records
    /\ UNCHANGED <<ledger, feed_links, x_published, bsky_published, last_pick, notPost>>

XFailures == {"none", "load", "prepare", "create_tweet", "open_w", "dump"}

\* One call of post_x_report(records). fail names the call that raises:
\* json.load; date.fromisoformat, get_images or simple_upload; create_tweet
\* (no tweet is made); open("posted.json", "w") (the file is left as it
\* was); json.dump (the file is left truncated).
post_x_report(fail) ==
    /\ Len(x_published) < MaxPosts
    /\ IF fail = "load" \/ ~ledger.ok
       THEN UNCHANGED <<ledger, x_published, last_pick>>
       ELSE LET posted == ledger.x
                unposted == x_unposted(records, posted)
                record == LastOrNone(unposted)
            IN  /\ last_pick' = [path |-> "x", chosen |-> record,
                                  published |-> {posted[k] : k \in 1..Len(posted)},
                                  candidates |-> records]
                /\ IF record = None \/ fail \in {"prepare", "create_tweet"}
                   THEN UNCHANGED <<ledger, x_published>>
                   ELSE /\ x_published' = Append(x_published, record)
                        /\ ledger' = CASE fail = "open_w" -> ledger
                                       [] fail = "dump" -> [ok |-> FALSE, x |-> <<>>]
                                       [] OTHER -> [ok |-> TRUE, x |-> <<record>> \o posted]
    /\ UNCHANGED <<records, feed_links, bsky_published, notPost>>

BskyFailures == {"none", "feed", "prepare", "send_root", "replies"}

\* One call of post_bsky_report(records). fail names the call that raises:
\* login or get_author_feed; get_images, upload_blob or date.fromisoformat;
\* the send_post of the root (nothing is posted); a later send_post (the
\* root, with its link, is in the feed).
post_bsky_report(fail) ==
    /\ Len(bsky_published) < MaxPosts
    /\ IF fail = "feed"
       THEN UNCHANGED <<feed_links, bsky_published, last_pick>>
       ELSE LET links == feed_links
                unposted == bsky_unposted(records, links)
                record == LastOrNone(unposted)
            IN  /\ last_pick' = [path |-> "bsky", chosen |-> record,
                                  published |-> {bsky_published[k] : k \in 1..Len(bsky_published)},
                                  candidates |-> records]
                /\ IF record = None \/ fail \in {"prepare", "send_root"}
                   THEN UNCHANGED <<feed_links, bsky_published>>
                   ELSE /\ bsky_published' = Append(bsky_published, record)
                        /\ feed_links' = Append(feed_links, RecordLink(record))
    /\ UNCHANGED <<records, ledger, x_published, notPost>>

PostNext ==
    \/ FetchReports
    \/ \E fail \in XFailures : post_x_report(fail)
    \/ \E fail \in BskyFailures : post_bsky_report(fail)

(***************************************************************************)
(* post_bsky_report: the thread of the record chosen                       *)
(***************************************************************************)
MAX_LENGTH == 300
BASE_LENGTH == 80

\* date.fromisoformat(d).strftime("%A, %b %-d") for d = "YYYY-MM-DD"
Digit(c) == CHOOSE n \in 0..9 : Char("0123456789", n + 1) = c

Number(s) ==
    LET RECURSIVE num(_, _)
        num(rest, acc) ==
            IF rest = "" THEN acc ELSE num(Tail(rest), 10 * acc + Digit(Head(rest)))
    IN  num(s, 0)

DigitsOf(n) ==
    IF n < 10 THEN Char("0123456789", n + 1)
    ELSE Char("0123456789", (n \div 10) + 1) \o Char("0123456789", (n % 10) + 1)

Weekdays == <<"Sunday", "Monday", "Tuesday", "Wednesday", "Thursday", "Friday", "Saturday">>
Months == <<"Jan", "Feb", "Mar", "Apr", "May", "Jun", "Jul", "Aug", "Sep", "Oct", "Nov", "Dec">>
MonthShift == <<0, 3, 2, 5, 0, 3, 5, 1, 4, 6, 2, 4>>

weekday(y, m, d) ==
    LET yy == IF m < 3 THEN y - 1 ELSE y
    IN  (yy + (yy \div 4) - (yy \div 100) + (yy \div 400) + MonthShift[m] + d) % 7

format_date(iso) ==
    LET y == Number(SubSeq(iso, 1, 4))
        m == Number(SubSeq(iso, 6, 7))
        d == Number(SubSeq(iso, 9, 10))
    IN  Weekdays[weekday(y, m, d) + 1] \o ", " \o Months[m] \o " " \o DigitsOf(d)

\* Lines 345-349: the title of the root post
root_title(rec_title) ==
    IF Len(rec_title) + BASE_LENGTH > MAX_LENGTH
    THEN SubSeq(rec_title, 1, MAX_LENGTH - BASE_LENGTH - 3) \o "..."
    ELSE rec_title

\* Lines 351-360: the text of the root post (the link shows as its label)
root_text(rec) ==
    "New report released! From " \o format_date(rec.date) \o ":\n\n"
    \o "* " \o root_title(rec.title)
    \o "\n\n> "
    \o "Read it here"
    \o " (" \o rec.pages \o ")\n\n"

\* Lines 381-388: one pass of the loop over the keywords
add_tag(built, kw) ==
    IF Len(built \o Remove(kw, " ")) + 2 < MAX_LENGTH
    THEN built \o "#" \o Remove(Remove(title(Remove(kw, "'")), " "), "-") \o " "
    ELSE built

\* The loop as it would be if it ended at the first keyword left out.
RECURSIVE build_tags_stopping(_, _)
build_tags_stopping(built, keywords) ==
    IF keywords = <<>> THEN built
    ELSE IF Len(built \o Remove(Head(keywords), " ")) + 2 < MAX_LENGTH
         THEN build_tags_stopping(add_tag(built, Head(keywords)), Tail(keywords))
         ELSE built

RECURSIVE build_tags(_, _)
build_tags(built, keywords) ==
    IF keywords = <<>> THEN built
    ELSE build_tags(add_tag(built, Head(keywords)), Tail(keywords))

tags_text(keywords) == build_tags("", keywords)

\* Lines 367-371 and 373-377: the chunks of the paragraphs, in order. A
\* paragraph is given as the sentences the segmenter cuts it into.
RECURSIVE paragraph_chunks(_)
paragraph_chunks(paragraphs) ==
    IF paragraphs = <<>> THEN <<>>
    ELSE chunk_text(Head(paragraphs), MAX_LENGTH - 10)
         \o paragraph_chunks(Tail(paragraphs))

\* The records and summaries the thread is built from.
LongTitle ==
    Repeat("Report of the Special Rapporteur on the situation of human rights; ", 3)
    \o "note by the Secretary-General"
LongSentence == Repeat("counter-terrorism-and-non-proliferation ", 8) \o "adopted."
LongWord == "https://undocs.org/" \o Repeat("x", 300)
LongKeyword == Repeat("SUSTAINABLE DEVELOPMENT ", 8)
LongerKeyword == Repeat("INTERNATIONAL COOPERATION ", 9)

ThreadTitles == {"Report of the Secretary-General", SubSeq(LongTitle, 1, 220), LongTitle}
ThreadDates == {"2024-09-25", "2024-05-03", None}
ThreadPages == {None, "25 p.", "1 v. (various pagings)"}
ThreadSummaries ==
    { <<>>,
      << <<"Transmits the report. ", "Covers the year 2024.">> >>,
      << <<"Transmits the report.">>, <<LongSentence>> >> }
ThreadExtras ==
    { <<>>,
      << <<"The present report is submitted. ", LongSentence>> >>,
      << <<LongWord>> >> }
ThreadKeywords ==
    { <<>>,
      <<"HUMAN RIGHTS", "WOMEN'S ADVANCEMENT", "PEACE-BUILDING">>,
      <<LongKeyword, LongerKeyword, "AID">> }

ThreadIdle ==
    /\ t_record = [id |-> None]
    /\ t_extra = <<>>
    /\ sent = <<>>
    /\ prev = 0
    /\ root = 0
    /\ t_i = 0
    /\ tpc = "idle"

\* The state after the record is chosen and get_summary has answered.
ThreadInit ==
    /\ t_record \in [id : {"4061"}, title : ThreadTitles, date : ThreadDates,
                     pages : ThreadPages, summary : ThreadSummaries,
                     keywords : ThreadKeywords]
    /\ t_extra \in ThreadExtras
    /\ sent = <<>>
    /\ prev = 0
    /\ root = 0
    /\ t_i = 0
    /\ tpc = "root"

\* client.send_post(text, reply_to=ReplyRef(parent, root)): the post is added
\* to the thread and gets the next reference.
send_post(unit_text, kind, parent_ref, root_ref) ==
    Append(sent, [ref |-> Len(sent) + 1, text |-> unit_text, kind |-> kind,
                  parent |-> parent_ref, root |-> root_ref])

\* Lines 350-365 (date.fromisoformat raises on a record without a date)
SendRoot ==
    /\ tpc = "root"
    /\ IF t_record.date = None
       THEN /\ tpc' = "raised"
            /\ UNCHANGED <<sent, prev, root, t_i>>
       ELSE /\ sent' = send_post(root_text(t_record), "root", 0, 0)
            /\ root' = Len(sent) + 1
            /\ prev' = Len(sent) + 1
            /\ t_i' = 1
            /\ tpc' = "summary"
    /\ UNCHANGED <<t_record, t_extra, notThread>>

\* Lines 367-371
SendSummaryChunk ==
    /\ tpc = "summary"
    /\ LET units == paragraph_chunks(t_record.summary)
       IN  /\ t_i <= Len(units)
           /\ sent' = send_post(units[t_i], "summary", prev, root)
    /\ prev' = Len(sent) + 1
    /\ t_i' = t_i + 1
    /\ UNCHANGED <<t_record, t_extra, root, tpc, notThread>>

SummaryDone ==
    /\ tpc = "summary"
    /\ t_i > Len(paragraph_chunks(t_record.summary))
    /\ tpc' = "extra"
    /\ t_i' = 1
    /\ UNCHANGED <<t_record, t_extra, sent, prev, root, notThread>>

\* Lines 373-377
SendExtraChunk_parent_root ==
    /\ tpc = "extra"
    /\ LET units == paragraph_chunks(t_extra)
       IN  /\ t_i <= Len(units)
           /\ sent' = send_post(units[t_i], "extra", root, root)
    /\ prev' = Len(sent) + 1
    /\ t_i' = t_i + 1
    /\ UNCHANGED <<t_record, t_extra, root, tpc, notThread>>

SendExtraChunk ==
    /\ tpc = "extra"
    /\ LET units == paragraph_chunks(t_extra)
       IN  /\ t_i <= Len(units)
           /\ sent' = send_post(units[t_i], "extra", prev, root)
    /\ prev' = Len(sent) + 1
    /\ t_i' = t_i + 1
    /\ UNCHANGED <<t_record, t_extra, root, tpc, notThread>>

ExtraDone ==
    /\ tpc = "extra"
    /\ t_i > Len(paragraph_chunks(t_extra))
    /\ tpc' = "tags"
    /\ t_i' = 1
    /\ UNCHANGED <<t_record, t_extra, sent, prev, root, notThread>>

\* Lines 379-390
SendTags ==
    /\ tpc = "tags"
    /\ IF Len(t_record.keywords) > 0
       THEN sent' = send_post(tags_text(t_record.keywords), "tags", prev, root)
       ELSE UNCHANGED sent
    /\ tpc' = "done"
    /\ UNCHANGED <<t_record, t_extra, prev, root, t_i, notThread>>

\* A send_post that raises ends post_bsky_report where it is.
SendPostRaises ==
    /\ \/ tpc = "root" /\ t_record.date # None
       \/ tpc = "summary" /\ t_i <= Len(paragraph_chunks(t_record.summary))
       \/ tpc = "extra" /\ t_i <= Len(paragraph_chunks(t_extra))
       \/ tpc = "tags" /\ Len(t_record.keywords) > 0
    /\ tpc' = "raised"
    /\ UNCHANGED <<t_record, t_extra, sent, prev, root, t_i, notThread>>

ThreadNext ==
    \/ SendRoot
    \/ SendSummaryChunk
    \/ SummaryDone
    \/ SendExtraChunk
    \/ ExtraDone
    \/ SendTags
    \/ SendPostRaises

(***************************************************************************)
(* The main program: both platforms are tried, errors are raised last      *)
(***************************************************************************)
\* What a call may raise. TooManyRequests and Forbidden are tweepy's.
RetrieveErrors == {"TimeoutError", "ParseError"}
BskyErrors == {"NetworkError", "BadRequestError", "ValueError"}
XErrors == {"TooManyRequests", "Forbidden", "Unauthorized", "ValueError"}

MainIdle ==
    /\ mpc = "idle"
    /\ exceptions = <<>>
    /\ calls = <<>>
    /\ printed = <<>>
    /\ exit_error = None

MainInit ==
    /\ mpc = "retrieve"
    /\ exceptions = <<>>
    /\ calls = <<>>
    /\ printed = <<>>
    /\ exit_error = None

\* Lines 613-636: an error here is caught by nothing and ends the run.
Retrieve ==
    /\ mpc = "retrieve"
    /\ \E outcome \in {"ok"} \cup RetrieveErrors :
          /\ calls' = Append(calls, [fn |-> "retrieve", outcome |-> outcome])
          /\ IF outcome = "ok"
             THEN mpc' = "post_bsky_report" /\ UNCHANGED exit_error
             ELSE mpc' = "exit" /\ exit_error' = outcome
    /\ UNCHANGED <<exceptions, printed, notMain>>

\* Lines 642-643: except Exception as e
bsky_except_raising(e) ==
    /\ exit_error' = e
    /\ mpc' = "exit"
    /\ UNCHANGED <<exceptions, printed>>

bsky_except(e) ==
    /\ exceptions' = Append(exceptions, e)
    /\ mpc' = "post_x_report"
    /\ UNCHANGED <<printed, exit_error>>

\* Lines 648-651: except (TooManyRequests, Forbidden) as e, except Exception as e
x_except(e) ==
    /\ IF e \in {"TooManyRequests", "Forbidden"}
       THEN printed' = Append(printed, e) /\ UNCHANGED exceptions
       ELSE exceptions' = Append(exceptions, e) /\ UNCHANGED printed
    /\ mpc' = "reraise"
    /\ UNCHANGED exit_error

\* Lines 638-641: the first try block
BskyCall(fn, next) ==
    /\ mpc = fn
    /\ \E outcome \in {"ok"} \cup BskyErrors :
          /\ calls' = Append(calls, [fn |-> fn, outcome |-> outcome])
          /\ IF outcome = "ok"
             THEN mpc' = next /\ UNCHANGED <<exceptions, printed, exit_error>>
             ELSE bsky_except(outcome)
    /\ UNCHANGED notMain

\* Lines 644-647: the second try block
XCall(fn, next) ==
    /\ mpc = fn
    /\ \E outcome \in {"ok"} \cup XErrors :
          /\ calls' = Append(calls, [fn |-> fn, outcome |-> outcome])
          /\ IF outcome = "ok"
             THEN mpc' = next /\ UNCHANGED <<exceptions, printed, exit_error>>
             ELSE x_except(outcome)
    /\ UNCHANGED notMain

PostBskyReport == BskyCall("post_bsky_report", "post_bsky_resolution")
PostBskyResolution == BskyCall("post_bsky_resolution", "post_x_report")
PostXReport == XCall("post_x_report", "post_x_resolution")
PostXResolution == XCall("post_x_resolution", "reraise")

\* Lines 652-653: for e in exceptions: raise e
Reraise ==
    /\ mpc = "reraise"
    /\ exit_error' = IF exceptions = <<>> THEN None ELSE exceptions[1]
    /\ mpc' = "exit"
    /\ UNCHANGED <<exceptions, calls, printed, notMain>>

MainNext ==
    \/ Retrieve
    \/ PostBskyReport
    \/ PostBskyResolution
    \/ PostXReport
    \/ PostXResolution
    \/ Reraise

(***************************************************************************)
(* marc_xml_to_reports                                                     *)
(***************************************************************************)
MaxDocRecords == 2

\* An element without text (field.text is None), a record without the
\* controlfield 001.
NoText == "<no text>"
NoControlField == "<no controlfield 001>"

\* The text of the 856 u subfields of a record, as the document holds them.
UrlTexts856 ==
    { <<>>,
      <<"https://undocs.org/a-EN.pdf">>,
      <<"https://undocs.org/a-FR.pdf">>,
      <<"https://undocs.org/a-FR.pdf", "\n  https://undocs.org/b-EN.pdf\n">>,
      <<"https://undocs.org/c-EN.pdf:", "https://undocs.org/a-EN.pdf">>,
      <<NoText, "https://undocs.org/a-ES.pdf">>,
      <<"-EN.pdf.html">> }

ControlFields == {"4061", " 4062\n", NoControlField}

MarcRecords == [controlfield_001 : ControlFields, urls_856 : UrlTexts856]

MarcDocuments == SeqsUpTo(MarcRecords, MaxDocRecords)

\* get_field(record, tag, code): the texts of the fields, stripped, without
\* the fields that have no text
get_field(texts) ==
    LET present == SelectSeq(texts, LAMBDA t : t # NoText /\ t # "")
    IN  [k \in 1..Len(present) |-> strip(strip_chars(present[k], {":"}))]

\* Lines 100-101
english_urls_first_only(field_texts) ==
    LET pdf_urls == get_field(field_texts)
    IN  IF pdf_urls # <<>> /\ endswith(pdf_urls[1], "-EN.pdf") THEN <<pdf_urls[1]>> ELSE <<>>

english_urls(field_texts) ==
    SelectSeq(get_field(field_texts), LAMBDA url : endswith(url, "-EN.pdf"))

MarcIdle ==
    /\ m_doc = <<>>
    /\ m_results = <<>>
    /\ m_i = 0
    /\ m_pc = "idle"

MarcInit ==
    /\ m_doc \in MarcDocuments
    /\ m_results = <<>>
    /\ m_i = 1
    /\ m_pc = "loop"

\* Line 94: record.find(...) is None for a record without the controlfield,
\* and None.text raises AttributeError out of marc_xml_to_reports.
RecordWithoutId ==
    /\ m_pc = "loop"
    /\ m_i <= Len(m_doc)
    /\ m_doc[m_i].controlfield_001 = NoControlField
    /\ m_pc' = "raised"
    /\ UNCHANGED <<m_doc, m_results, m_i, notMarc>>

\* Lines 100-103: continue
RecordSkipped ==
    /\ m_pc = "loop"
    /\ m_i <= Len(m_doc)
    /\ m_doc[m_i].controlfield_001 # NoControlField
    /\ english_urls(m_doc[m_i].urls_856) = <<>>
    /\ m_i' = m_i + 1
    /\ UNCHANGED <<m_doc, m_results, m_pc, notMarc>>

\* Lines 105-115
RecordAppended ==
    /\ m_pc = "loop"
    /\ m_i <= Len(m_doc)
    /\ m_doc[m_i].controlfield_001 # NoControlField
    /\ LET pdf_urls == english_urls(m_doc[m_i].urls_856)
       IN  /\ pdf_urls # <<>>
           /\ m_results' = Append(m_results,
                                  [id |-> strip(m_doc[m_i].controlfield_001),
                                   pdf_url |-> pdf_urls[1],
                                   position |-> m_i])
    /\ m_i' = m_i + 1
    /\ UNCHANGED <<m_doc, m_pc, notMarc>>

\* Line 116
ReportsReturned ==
    /\ m_pc = "loop"
    /\ m_i > Len(m_doc)
    /\ m_pc' = "returned"
    /\ UNCHANGED <<m_doc, m_results, m_i, notMarc>>

MarcNext == RecordWithoutId \/ RecordSkipped \/ RecordAppended \/ ReportsReturned

(***************************************************************************)
(* get_images and pdf_to_image                                             *)
(***************************************************************************)
MaxReencodes == 3
SIZE_LIMIT == 950000

\* The qualities the loop reaches within MaxReencodes passes, and the sizes
\* the encoder may answer with: at the limit, or above it.
Qualities == {100 - 10 * k : k \in 0..MaxReencodes}
EncodedSizes == {SIZE_LIMIT, SIZE_LIMIT + 1}

\* A page of the PDF: rendering it raises, or it encodes to size[q] bytes at
\* quality q.
PdfPages ==
    {[renders |-> FALSE]} \cup [renders : {TRUE}, size : [Qualities -> EncodedSizes]]

Pdfs ==
    {[status |-> 404, pages |-> <<>>]}
    \cup {[status |-> 200, pages |-> ps] : ps \in SeqsUpTo(PdfPages, 2)}

\* What pdf_to_image returns for a page it cannot render: None
NoImage == [none |-> TRUE]

PageRequests == {<<0, 1>>, <<1>>}

ImageIdle ==
    /\ pdf = [status |-> 0]
    /\ page_nrs = <<>>
    /\ page_i = 0
    /\ images = <<>>
    /\ quality = 0
    /\ buf = NoImage
    /\ encodes = <<>>
    /\ ipc = "idle"
    /\ get_images_result = <<>>

ImageInit ==
    /\ pdf \in Pdfs
    /\ page_nrs \in PageRequests
    /\ page_i = 0
    /\ images = <<>>
    /\ quality = 0
    /\ buf = NoImage
    /\ encodes = <<>>
    /\ ipc = "get"
    /\ get_images_result = <<>>

\* Lines 152-154: the PDF has the page and get_pixmap renders it
page_renders(page) ==
    /\ Len(pdf.pages) # 0
    /\ page < Len(pdf.pages)
    /\ pdf.pages[page + 1].renders

\* img.save(buf, format="JPEG", quality=q): the bytes of page at quality q
jpeg(page, q) == [page |-> page, quality |-> q, size |-> pdf.pages[page + 1].size[q]]

\* Lines 202: the images that are not None
until_first_none(imgs) ==
    LET nones == {k \in 1..Len(imgs) : imgs[k] = NoImage}
    IN  IF nones = {} THEN imgs
        ELSE SubSeq(imgs, 1, (CHOOSE k \in nones : \A j \in nones : k <= j) - 1)

without_none(imgs) == SelectSeq(imgs, LAMBDA image : image # NoImage)

\* Lines 195-199
GetPdf ==
    /\ ipc = "get"
    /\ IF pdf.status = 200
       THEN /\ ipc' = "page"
            /\ page_i' = 1
            /\ UNCHANGED get_images_result
       ELSE /\ ipc' = "returned"
            /\ get_images_result' = <<>>
            /\ UNCHANGED page_i
    /\ UNCHANGED <<pdf, page_nrs, images, quality, buf, encodes, notImage>>

\* Lines 151-154 and 172-174: a PDF without pages gives None; a page that
\* is not there, or that fails to render, raises, and the handler gives None.
PageGivesNone ==
    /\ ipc = "page"
    /\ page_i <= Len(page_nrs)
    /\ ~page_renders(page_nrs[page_i])
    /\ images' = Append(images, NoImage)
    /\ page_i' = page_i + 1
    /\ UNCHANGED <<pdf, page_nrs, quality, buf, encodes, ipc, get_images_result, notImage>>

\* Lines 154-163
FirstEncode ==
    /\ ipc = "page"
    /\ page_i <= Len(page_nrs)
    /\ page_renders(page_nrs[page_i])
    /\ quality' = 100
    /\ buf' = jpeg(page_nrs[page_i], 100)
    /\ encodes' = <<100>>
    /\ ipc' = "encoded"
    /\ UNCHANGED <<pdf, page_nrs, page_i, images, get_images_result, notImage>>

\* Lines 165-169: one pass of the while loop
ReEncode ==
    /\ ipc = "encoded"
    /\ buf.size > SIZE_LIMIT
    /\ Len(encodes) <= MaxReencodes
    /\ buf' = jpeg(page_nrs[page_i], quality)
    /\ encodes' = Append(encodes, quality)
    /\ quality' = quality - 10
    /\ UNCHANGED <<pdf, page_nrs, page_i, images, ipc, get_images_result, notImage>>

\* Line 171
ReturnImage ==
    /\ ipc = "encoded"
    /\ buf.size <= SIZE_LIMIT
    /\ images' = Append(images, buf)
    /\ page_i' = page_i + 1
    /\ ipc' = "page"
    /\ UNCHANGED <<pdf, page_nrs, quality, buf, encodes, get_images_result, notImage>>

\* Lines 202-204
ReturnImages ==
    /\ ipc = "page"
    /\ page_i > Len(page_nrs)
    /\ get_images_result' = without_none(images)
    /\ ipc' = "returned"
    /\ UNCHANGED <<pdf, page_nrs, page_i, images, quality, buf, encodes, notImage>>

ImageNext ==
    \/ GetPdf
    \/ PageGivesNone
    \/ FirstEncode
    \/ ReEncode
    \/ ReturnImage
    \/ ReturnImages

(***************************************************************************)
(* Specifications                                                          *)
(***************************************************************************)
InitChunk ==
    ChunkInit /\ PostIdle /\ ThreadIdle /\ MainIdle /\ MarcIdle /\ ImageIdle
SpecChunk == InitChunk /\ [][ChunkNext]_vars

InitPost ==
    PostInit /\ ChunkIdle /\ ThreadIdle /\ MainIdle /\ MarcIdle /\ ImageIdle
SpecPost == InitPost /\ [][PostNext]_vars

InitThread ==
    ThreadInit /\ ChunkIdle /\ PostIdle /\ MainIdle /\ MarcIdle /\ ImageIdle
SpecThread == InitThread /\ [][ThreadNext]_vars

InitMain ==
    MainInit /\ ChunkIdle /\ PostIdle /\ ThreadIdle /\ MarcIdle /\ ImageIdle
SpecMain == InitMain /\ [][MainNext]_vars

InitMarc ==
    MarcInit /\ ChunkIdle /\ PostIdle /\ ThreadIdle /\ MainIdle /\ ImageIdle
SpecMarc == InitMarc /\ [][MarcNext]_vars

InitImage ==
    ImageInit /\ ChunkIdle /\ PostIdle /\ ThreadIdle /\ MainIdle /\ MarcIdle
SpecImage == InitImage /\ [][ImageNext]_vars

\* C1: every chunk chunk_text returns is at most max_length characters long,
\* long words and added "..." markers included.
C1_ChunksWithinMaxLength ==
    \A i \in 1..Len(chunks) : Len(chunks[i]) <= max_length

\* The words a reader recovers from the chunks: each chunk without the
\* marker chunk_text added to it, split on whitespace.
Unmarked(chunk, mark) ==
    IF mark = "trail" THEN SubSeq(chunk, 1, Len(chunk) - 3)
    ELSE IF mark = "lead" THEN SubSeq(chunk, 4, Len(chunk))
    ELSE chunk

ChunkWords ==
    Flatten([i \in 1..Len(chunks) |-> split(Unmarked(chunks[i], marks[i]))])

ChunksAfter(k) == Len(chunk_text(SubSeq(sentences, 1, k), max_length))

Origin(j) ==
    CHOOSE k \in 1..Len(sentences) : ChunksAfter(k - 1) < j /\ j <= ChunksAfter(k)

\* C13: a chunk carries the leading "..." marker if and only if it continues
\* a sentence whose preceding chunk chunk_text closed with a trailing "...":
\* every chunk after an ellipsis-closed chunk of the same sentence has it, and
\* no chunk that starts a sentence has it.
C13_PrefixIffContinuation ==
    cpc = "done" =>
        \A j \in 1..Len(chunks) :
            marks[j] = "lead" <=>
                /\ j > 1
                /\ Origin(j) = Origin(j - 1)
                /\ marks[j - 1] = "trail"


\* The record the claims call the oldest unposted one: the last candidate
\* whose id is not among the published ids.
OldestUnposted(candidates, published) ==
    LastOrNone(SelectSeq(candidates, LAMBDA id : id \notin published))

\* C3: on both paths the record chosen is the last candidate whose id is
\* absent from the published ids, and none is chosen when all are published.
C3_PicksOldestUnposted ==
    last_pick.path # "none" =>
        last_pick.chosen = OldestUnposted(last_pick.candidates, last_pick.published)

\* C4: over any sequence of runs of post_x_report, raising or not, no record
\* id is published to X more than once.
C4_NoIdTweetedTwice ==
    \A i, j \in 1..Len(x_published) : i # j => x_published[i] # x_published[j]


\* The thread the claims describe: the root, the chunks of the record's
\* summary paragraphs, the chunks of the extra paragraphs, then the hashtags.
ExpectedThread(rec, extra) ==
    <<root_text(rec)>>
    \o paragraph_chunks(rec.summary)
    \o paragraph_chunks(extra)
    \o (IF Len(rec.keywords) > 0 THEN <<tags_text(rec.keywords)>> ELSE <<>>)

IsPrefix(a, b) == Len(a) <= Len(b) /\ SubSeq(b, 1, Len(a)) = a

KindRank(kind) ==
    CASE kind = "root" -> 1 [] kind = "summary" -> 2 [] kind = "extra" -> 3 [] kind = "tags" -> 4

\* C5: the units of the thread are sent in the order root, summary chunks,
\* extra chunks, hashtags (only with keywords), and every unit after the root
\* replies to the unit sent just before it, with the first unit as its root.
C5_ThreadOrderAndReplies ==
    Len(sent) > 0 =>
        LET texts == [i \in 1..Len(sent) |-> sent[i].text]
            expected == ExpectedThread(t_record, t_extra)
        IN  /\ IsPrefix(texts, expected)
            /\ tpc = "done" => texts = expected
            /\ sent[1].kind = "root" /\ sent[1].parent = 0
            /\ \A i \in 2..Len(sent) :
                  /\ sent[i].root = sent[1].ref
                  /\ sent[i].parent = sent[i - 1].ref
                  /\ sent[i].kind # "root"
                  /\ KindRank(sent[i - 1].kind) <= KindRank(sent[i].kind)
            /\ Cardinality({i \in 1..Len(sent) : sent[i].kind = "tags"}) <= 1

\* C5 witness: a whole thread with summary chunks, extra chunks and hashtags.
C5_Witness ==
    /\ tpc = "done"
    /\ Cardinality({i \in 1..Len(sent) : sent[i].kind = "summary"}) >= 2
    /\ Cardinality({i \in 1..Len(sent) : sent[i].kind = "extra"}) >= 2
    /\ sent[Len(sent)].kind = "tags"

\* C10: the text of every unit sent to Bluesky is at most MAX_LENGTH
\* characters long.
C10_UnitsWithinMaxLength ==
    \A i \in 1..Len(sent) : Len(sent[i].text) <= MAX_LENGTH

\* The tag of a keyword: apostrophes removed, title-cased, spaces and hyphens
\* removed, "#" before and a space after.
Tag(kw) == "#" \o Remove(Remove(title(Remove(kw, "'")), " "), "-") \o " "

\* The tags of the keywords at the positions in S, in source order.
TagsOf(keywords, S) ==
    Concat([k \in 1..Len(keywords) |-> IF k \in S THEN Tag(keywords[k]) ELSE ""])

\* The test of the loop: the keyword, its spaces removed, and two more
\* characters still leave the text built so far under the limit.
Fits(built, kw) == Len(built \o Remove(kw, " ")) + 2 < MAX_LENGTH

\* C12 as stated: the hashtag unit holds the tags of a prefix of the keyword
\* list, and once a keyword is left out because its tag would overflow, every
\* keyword after it is left out too.
C12_TagsOfKeywordPrefix ==
    \A i \in 1..Len(sent) :
        sent[i].kind = "tags" =>
            LET kws == t_record.keywords
            IN  \E p \in 0..Len(kws) :
                    /\ sent[i].text = TagsOf(kws, 1..p)
                    /\ p < Len(kws) => ~Fits(TagsOf(kws, 1..p), kws[p + 1])

\* C12, amended: the hashtag unit holds, in source order, the tags of exactly
\* the keywords that fit at their turn; a keyword that does not fit is left
\* out, a later one that fits is still added, and the text stays under the
\* limit.
C12_TagsOfFittingKeywords ==
    \A i \in 1..Len(sent) :
        sent[i].kind = "tags" =>
            LET kws == t_record.keywords
            IN  /\ Len(sent[i].text) < MAX_LENGTH
                /\ \E S \in SUBSET (1..Len(kws)) :
                       /\ sent[i].text = TagsOf(kws, S)
                       /\ \A k \in 1..Len(kws) :
                             k \in S <=> Fits(TagsOf(kws, S \cap (1..(k - 1))), kws[k])

\* C12 witness: the hashtag unit was sent for three keywords of which the
\* second did not fit and the third, after it, did.
C12_Witness ==
    /\ tpc = "done"
    /\ Len(t_record.keywords) = 3
    /\ Len(sent) > 0
    /\ sent[Len(sent)].kind = "tags"
    /\ sent[Len(sent)].text = TagsOf(t_record.keywords, {1, 3})
    /\ ~Fits(Tag(t_record.keywords[1]), t_record.keywords[2])


Called(fn) == \E k \in 1..Len(calls) : calls[k].fn = fn

Raised(fn, errors) == \E k \in 1..Len(calls) : calls[k].fn = fn /\ calls[k].outcome \in errors

BskyFns == {"post_bsky_report", "post_bsky_resolution"}
XFns == {"post_x_report", "post_x_resolution"}
Tolerated == {"TooManyRequests", "Forbidden"}

\* C6: whatever the Bluesky phase raises, the X phase is still attempted; an
\* error outside the tolerated set is raised only after both platforms were
\* attempted; a tolerated X error is printed and does not fail the run.
C6_BothPlatformsAttempted ==
    /\ \A fn \in BskyFns :
          Raised(fn, BskyErrors) /\ mpc \in {"reraise", "exit"} => Called("post_x_report")
    /\ exit_error # None /\ Called("post_bsky_report") =>
          /\ Called("post_x_report")
          /\ \/ \E fn \in BskyFns : Raised(fn, {exit_error})
             \/ \E fn \in XFns : Raised(fn, {exit_error} \ Tolerated)
    /\ \A k \in 1..Len(calls) :
          calls[k].fn \in XFns /\ calls[k].outcome \in Tolerated /\ mpc \in {"reraise", "exit"} =>
              /\ \E p \in 1..Len(printed) : printed[p] = calls[k].outcome
              /\ (~\E fn \in BskyFns : Raised(fn, BskyErrors)) => exit_error = None

\* C6 witness: the Bluesky phase raised, the X phase ran into a tolerated
\* error, and the run has ended raising the Bluesky error.
C6_Witness ==
    /\ mpc = "exit"
    /\ Raised("post_bsky_report", BskyErrors)
    /\ Raised("post_x_resolution", Tolerated)
    /\ exit_error \in BskyErrors


\* A record has an English document when the text of one of its 856 u
\* subfields, read as get_field reads it, ends in "-EN.pdf".
HasEnglishUrl(rec) ==
    \E k \in 1..Len(rec.urls_856) :
        /\ rec.urls_856[k] # NoText
        /\ endswith(strip(strip_chars(rec.urls_856[k], {":"})), "-EN.pdf")

\* A document in which every record has its controlfield 001.
WellFormed(doc) == \A k \in 1..Len(doc) : doc[k].controlfield_001 # NoControlField

\* C7: the output of marc_xml_to_reports is the records of the document that
\* have an English document URL, in document order, each with a non-empty
\* pdf_url ending in "-EN.pdf"; a record without one is left out and raises
\* no error.
C7_ExactlyTheEnglishRecords ==
    LET done == IF m_pc = "returned" THEN Len(m_doc) ELSE m_i - 1
        wanted == {k \in 1..done : HasEnglishUrl(m_doc[k])}
    IN  /\ {m_results[r].position : r \in 1..Len(m_results)} = wanted
        /\ Len(m_results) = Cardinality(wanted)
        /\ \A r, q \in 1..Len(m_results) :
              r < q => m_results[r].position < m_results[q].position
        /\ \A r \in 1..Len(m_results) :
              /\ m_results[r].pdf_url # ""
              /\ endswith(m_results[r].pdf_url, "-EN.pdf")
              /\ m_results[r].id = strip(m_doc[m_results[r].position].controlfield_001)
        /\ WellFormed(m_doc) => m_pc # "raised"

\* C7 witness: a document whose first record has no English URL and whose
\* second has one after a French one; the extraction has returned.
C7_Witness ==
    /\ m_pc = "returned"
    /\ Len(m_doc) = 2
    /\ ~HasEnglishUrl(m_doc[1])
    /\ Len(m_doc[2].urls_856) = 2
    /\ ~endswith(strip(m_doc[2].urls_856[1]), "-EN.pdf")
    /\ Len(m_results) = 1

\* The records of the document that have their controlfield 001 and an
\* English document URL, as positions in document order.
QualifyingPositions(doc) ==
    LET qualifies(k) == doc[k].controlfield_001 # NoControlField /\ HasEnglishUrl(doc[k])
        nth(S, n) == CHOOSE i \in S : Cardinality({j \in S : j <= i}) = n
        wanted == {k \in 1..Len(doc) : qualifies(k)}
    IN  [n \in 1..Cardinality(wanted) |-> nth(wanted, n)]

\* C11: a record without the controlfield 001 is skipped: the extraction does
\* not raise, and it returns every other qualifying record of the document in
\* document order.
C11_RecordWithoutIdSkipped ==
    /\ m_pc # "raised"
    /\ m_pc = "returned" =>
          [r \in 1..Len(m_results) |-> m_results[r].position] = QualifyingPositions(m_doc)


\* C8: pdf_to_image ends with None or an image of at most 950,000 bytes, and
\* while the size is above that each re-encoding uses a quality 10 lower than
\* the encoding before it.
C8_EachReencodeLowersQuality ==
    /\ \A k \in 1..Len(images) : images[k] # NoImage => images[k].size <= SIZE_LIMIT
    /\ \A k \in 2..Len(encodes) : encodes[k] = encodes[k - 1] - 10

\* C9 as the specification states it: one entry per requested page, None for
\* a page that failed.
C9_OneEntryPerRequestedPage ==
    ipc = "returned" /\ pdf.status = 200 =>
        /\ Len(get_images_result) = Len(page_nrs)
        /\ \A k \in 1..Len(page_nrs) :
              IF page_renders(page_nrs[k])
              THEN get_images_result[k] # NoImage /\ get_images_result[k].page = page_nrs[k]
              ELSE get_images_result[k] = NoImage

\* C9, amended: get_images returns the images of the requested pages that
\* rendered, in the order requested, and leaves out the pages that failed.
C9_ImagesOfRenderedPages ==
    ipc = "returned" =>
        LET rendered == IF pdf.status = 200 THEN SelectSeq(page_nrs, page_renders) ELSE <<>>
        IN  /\ Len(get_images_result) = Len(rendered)
            /\ \A k \in 1..Len(rendered) :
                  /\ get_images_result[k] # NoImage
                  /\ get_images_result[k].page = rendered[k]
                  /\ get_images_result[k].size =
                         pdf.pages[rendered[k] + 1].size[get_images_result[k].quality]

\* C9 witness: the first requested page failed, the second rendered, and
\* get_images has returned the image of the second alone.
C9_Witness ==
    /\ ipc = "returned"
    /\ page_nrs = <<0, 1>>
    /\ ~page_renders(0)
    /\ page_renders(1)
    /\ Len(get_images_result) = 1

====
